---- MODULE Spec2Model ----
(***************************************************************************)
(* A model of dmass_bypass_status/main.py: the StepFunction execution      *)
(* record, the listing/enrichment pass (build_discover_ingest_objects),    *)
(* the relation tree builder (build_relation_tree), the metadata backfill  *)
(* (append_metadata) and the report renderer (generate_report).            *)
(*                                                                         *)
(* Python values are modelled as follows.                                  *)
(*   - A dict is a function whose domain is the set of its keys, except    *)
(*     the relation map, whose insertion order matters: it is a sequence   *)
(*     of entries [key, child, info].                                      *)
(*   - An ARN, which the code searches with str.replace, is the sequence  *)
(*     of its characters, and so is the execution name appended to it.     *)
(*   - A string the code only puts together (a provider URI, a granule     *)
(*     identifier) is the sequence of its parts.                           *)
(*   - A JSON text is [parses |-> TRUE, value |-> v], or                   *)
(*     [parses |-> FALSE] for a text json.loads rejects.                   *)
(*   - A timestamp is a natural number, a timedelta an integer.            *)
(*   - An uncaught exception ends the program: pc becomes "aborted".       *)
(***************************************************************************)
EXTENDS Integers, Sequences, FiniteSets, TLC

VARIABLES
    pc,                  \* position of the script
    list_discover_exec,  \* list_executions(discover_arn)['executions']
    list_exec,           \* list_executions(ingest_arn)['executions']
    discovers,           \* list of StepFunction objects
    ingests,             \* list of StepFunction objects
    relation_map,        \* the forest (relation_map / source / relation_tree)
    idx,                 \* number of items the running loop has finished
    debug_data,          \* the forest as persisted before append_metadata
    calls,               \* the requests append_metadata has made, per client method
    response,            \* append_metadata's last get_execution_history response
    s3_response_object,  \* append_metadata's last get_object response
    raw_data,            \* the forest as persisted after append_metadata
    report               \* the lines generate_report has written

vars == <<pc, list_discover_exec, list_exec, discovers, ingests, relation_map,
          idx, debug_data, calls, response, s3_response_object, raw_data, report>>

----------------------------------------------------------------------------
(* Bounds of the model *)

MaxDiscover == 1

MaxIngest == 2

MaxTime == 3

----------------------------------------------------------------------------
(* Literals of the program *)

NA == "N/A"

NAStr == <<"N/A">>

\* 'N/A' where an ARN is expected, character by character like every ARN
NAArn == <<"N", "/", "A">>

REPLACE_NOT_FOUND == "REPLACE NOT FOUND"

Statuses == {"RUNNING", "SUCCEEDED", "FAILED"}

\* response['events'][4]
EventIndex == 4

\* A JSON text and what json.loads makes of it
JsonText(v) == [parses |-> TRUE, value |-> v]

Garbage == [parses |-> FALSE]

\* A JSON number or string held in an info dict
JNum(n) == [type |-> "number", n |-> n, s |-> ""]

JStr(s) == [type |-> "string", n |-> 0, s |-> s]

\* the characters of 'stateMachine' and of 'execution'
StateMachineChars == <<"s", "t", "a", "t", "e", "M", "a", "c", "h", "i", "n", "e">>

ExecutionChars == <<"e", "x", "e", "c", "u", "t", "i", "o", "n">>

\* str.replace on a string given character by character: every occurrence of
\* old, found from the left and not overlapping, becomes new
RECURSIVE Replace(_, _, _)
Replace(s, old, new) ==
    IF old = <<>>
    THEN IF s = <<>> THEN new ELSE new \o <<s[1]>> \o Replace(Tail(s), old, new)
    ELSE IF Len(s) < Len(old) THEN s
    ELSE IF SubSeq(s, 1, Len(old)) = old
    THEN new \o Replace(SubSeq(s, Len(old) + 1, Len(s)), old, new)
    ELSE <<s[1]>> \o Replace(Tail(s), old, new)

\* datetime.isoformat() and timedelta.__str__()
IsoFormat(t) == [iso |-> t]

DurationStr(d) == [timedelta |-> d]

----------------------------------------------------------------------------
(* class StepFunction *)

\* the instance right after __init__: class defaults plus the listing entry
StepFunction(step_execution) ==
    [name |-> step_execution["name"],
     status |-> step_execution["status"],
     start_date_time |-> step_execution["startDate"],
     stop_date_time |-> IF step_execution["status"] # "SUCCEEDED"
                        THEN step_execution["startDate"]
                        ELSE step_execution["stopDate"],
     execution_arn |-> step_execution["executionArn"],
     parent_execution_arn |-> NAArn,
     execution_metadata |-> [empty |-> TRUE],
     collection |-> NA,
     provider |-> NAStr,
     granule_id |-> NAStr]

\* self.execution_metadata == ''
NoMetadata(self) == "empty" \in DOMAIN self.execution_metadata

\* variant: the operands the other way round
get_duration_Swapped(self) == self.start_date_time - self.stop_date_time

get_duration(self) == self.stop_date_time - self.start_date_time

info(self) ==
    [status |-> self.status,
     start |-> IsoFormat(self.start_date_time),
     duration |-> DurationStr(get_duration(self)),
     parent |-> self.parent_execution_arn,
     collection |-> self.collection,
     provider |-> self.provider,
     granuleId |-> self.granule_id]

set_execution_metadata(self, execution_metadata) ==
    [self EXCEPT !.execution_metadata = execution_metadata]

\* set_parent: TRUE when it returns normally (no KeyError, no JSONDecodeError)
set_parent_returns(self) ==
    \/ NoMetadata(self)
    \/ LET meta == self.execution_metadata["input"]
       IN /\ meta.parses
          /\ "payload" \in DOMAIN meta.value
          /\ "meta" \in DOMAIN meta.value["payload"]
          /\ {"source", "execution_name"} \subseteq DOMAIN meta.value["payload"]["meta"]

set_parent(self) ==
    IF NoMetadata(self) THEN self
    ELSE LET json_dict == self.execution_metadata["input"].value["payload"]["meta"]
             arn == Replace(json_dict["source"], StateMachineChars, ExecutionChars)
         IN [self EXCEPT !.parent_execution_arn =
                             arn \o <<":">> \o json_dict["execution_name"]]

set_granule_id_returns(self) ==
    \/ NoMetadata(self)
    \/ self.execution_metadata["status"] # "SUCCEEDED"
    \/ LET meta == self.execution_metadata["output"]
       IN /\ meta.parses
          /\ "meta" \in DOMAIN meta.value
          /\ "cnmResponse" \in DOMAIN meta.value["meta"]
          /\ "identifier" \in DOMAIN meta.value["meta"]["cnmResponse"]

set_granule_id(self) ==
    IF NoMetadata(self) THEN self
    ELSE IF self.execution_metadata["status"] # "SUCCEEDED" THEN self
    ELSE LET output == self.execution_metadata["output"].value["meta"]["cnmResponse"]
         IN [self EXCEPT !.granule_id = output["identifier"]]

set_extra_metadata_returns(self) ==
    \/ NoMetadata(self)
    \/ LET lambda_input == self.execution_metadata["input"]
       IN /\ lambda_input.parses
          /\ "meta" \in DOMAIN lambda_input.value
          /\ {"collection", "provider"} \subseteq DOMAIN lambda_input.value["meta"]
          /\ {"name", "meta"} \subseteq DOMAIN lambda_input.value["meta"]["collection"]
          /\ {"protocol", "host"} \subseteq DOMAIN lambda_input.value["meta"]["provider"]
          /\ "provider_path" \in DOMAIN lambda_input.value["meta"]["collection"]["meta"]

\* the record as set_extra_metadata leaves it when it raises: line 74 has
\* assigned the collection when the raise comes from lines 76-78
set_extra_metadata_raised(self) ==
    LET lambda_input == self.execution_metadata["input"]
    IN IF /\ lambda_input.parses
          /\ "meta" \in DOMAIN lambda_input.value
          /\ "collection" \in DOMAIN lambda_input.value["meta"]
          /\ "name" \in DOMAIN lambda_input.value["meta"]["collection"]
       THEN [self EXCEPT !.collection = lambda_input.value["meta"]["collection"]["name"]]
       ELSE self

set_extra_metadata(self) ==
    IF NoMetadata(self) THEN self
    ELSE LET lambda_input_dict == self.execution_metadata["input"].value
             protocol == lambda_input_dict["meta"]["provider"]["protocol"]
             host == lambda_input_dict["meta"]["provider"]["host"]
             provider_path == lambda_input_dict["meta"]["collection"]["meta"]["provider_path"]
             startswith_slash == provider_path # <<>> /\ Head(provider_path) = "/"
         IN [self EXCEPT
                !.collection = lambda_input_dict["meta"]["collection"]["name"],
                !.provider = <<protocol, "://", host, "/">> \o
                             (IF startswith_slash THEN Tail(provider_path) ELSE provider_path)]

----------------------------------------------------------------------------
(* The relation map: a Python dict, which keeps its keys in insertion order *)

Keys(m) == {m[i].key : i \in DOMAIN m}

Has(m, k) == k \in Keys(m)

IndexOf(m, k) == CHOOSE i \in DOMAIN m : m[i].key = k

Get(m, k) == m[IndexOf(m, k)]

\* m[k] = v: an existing key keeps its place, a new key goes last
DictSet(m, k, v) ==
    LET entry == [key |-> k, child |-> v.child, info |-> v.info]
    IN IF Has(m, k) THEN [m EXCEPT ![IndexOf(m, k)] = entry] ELSE Append(m, entry)

\* variant: the root is keyed by the record's parent reference
TreeAddDiscover_KeyedByParent(m, a) ==
    DictSet(m, a.parent_execution_arn, [child |-> <<>>, info |-> info(a)])

\* the body of the loop over discover_list
TreeAddDiscover(m, a) ==
    DictSet(m, a.execution_arn, [child |-> <<>>, info |-> info(a)])

\* variant: the membership test looks for the record's own reference
TreeAddIngest_TestsOwnArn(m, b, execution_input) ==
    LET child == b.execution_arn :> info(b)
    IN IF Has(m, b.execution_arn)
       THEN [m EXCEPT ![IndexOf(m, b.execution_arn)].child = Append(@, child)]
       ELSE LET temp_step ==
                    set_extra_metadata(
                        set_execution_metadata(StepFunction(execution_input),
                                               execution_input))
            IN DictSet(m, b.parent_execution_arn,
                       [child |-> <<child>>, info |-> info(temp_step)])

\* variant: a child of an existing root goes to the front of the list
TreeAddIngest_Prepends(m, b, execution_input) ==
    LET child == b.execution_arn :> info(b)
    IN IF Has(m, b.parent_execution_arn)
       THEN [m EXCEPT ![IndexOf(m, b.parent_execution_arn)].child = <<child>> \o @]
       ELSE LET temp_step ==
                    set_extra_metadata(
                        set_execution_metadata(StepFunction(execution_input),
                                               execution_input))
            IN DictSet(m, b.parent_execution_arn,
                       [child |-> <<child>>, info |-> info(temp_step)])

\* the if/else of the loop over ingest_list; b already carries the parent's
\* description and the metadata derived from it
TreeAddIngest(m, b, execution_input) ==
    LET child == b.execution_arn :> info(b)
    IN IF Has(m, b.parent_execution_arn)
       THEN [m EXCEPT ![IndexOf(m, b.parent_execution_arn)].child = Append(@, child)]
       ELSE LET temp_step ==
                    set_extra_metadata(
                        set_execution_metadata(StepFunction(execution_input),
                                               execution_input))
            IN DictSet(m, b.parent_execution_arn,
                       [child |-> <<child>>, info |-> info(temp_step)])

----------------------------------------------------------------------------
(* What the Step Functions client can answer *)

\* config.get('DEFAULT', 'discover_arn') and config.get('DEFAULT', 'ingest_arn')
\* 'stateMachine:discover' and 'stateMachine:ingest'
discover_arn ==
    StateMachineChars \o <<":", "d", "i", "s", "c", "o", "v", "e", "r">>

ingest_arn ==
    StateMachineChars \o <<":", "i", "n", "g", "e", "s", "t">>

\* the decimal digits, and the execution name the model gives the n-th run
Digits == <<"0", "1", "2", "3", "4", "5", "6", "7", "8", "9">>

RECURSIVE NameOf(_)
NameOf(n) ==
    IF n < 10 THEN <<Digits[n + 1]>> ELSE NameOf(n \div 10) \o <<Digits[(n % 10) + 1]>>

\* the ARN of the execution called name of a state machine
ExecutionArn(stateMachineArn, name) ==
    Replace(stateMachineArn, StateMachineChars, ExecutionChars) \o <<":">> \o name

\* the execution name an execution ARN ends with: what follows its last ':'
NameIn(arn) ==
    IF \E i \in DOMAIN arn : arn[i] = ":"
    THEN LET i == CHOOSE i \in DOMAIN arn :
                      arn[i] = ":" /\ \A k \in (i + 1)..Len(arn) : arn[k] # ":"
         IN SubSeq(arn, i + 1, Len(arn))
    ELSE arn

\* an item of list_executions()['executions']; a run that has not ended has no stopDate
ListEntry(stateMachineArn, name, status, start, stop) ==
    IF status = "RUNNING"
    THEN [name |-> name, status |-> status, startDate |-> start,
          executionArn |-> ExecutionArn(stateMachineArn, name)]
    ELSE [name |-> name, status |-> status, startDate |-> start, stopDate |-> stop,
          executionArn |-> ExecutionArn(stateMachineArn, name)]

\* the listings of the first k executions of a state machine, k <= max
Listings(stateMachineArn, max) ==
    UNION {{[i \in 1..k |-> ListEntry(stateMachineArn, NameOf(i), st[i], 0, 1)] :
                st \in [1..k -> Statuses]} : k \in 0..max}

\* a describe_execution() response; output comes with SUCCEEDED only
Description(arn, status, start, stop, input, output) ==
    IF status = "RUNNING"
    THEN [executionArn |-> arn, name |-> NameIn(arn), status |-> status,
          startDate |-> start, input |-> input]
    ELSE IF status = "SUCCEEDED"
    THEN [executionArn |-> arn, name |-> NameIn(arn), status |-> status,
          startDate |-> start, stopDate |-> stop, input |-> input, output |-> output]
    ELSE [executionArn |-> arn, name |-> NameIn(arn), status |-> status,
          startDate |-> start, stopDate |-> stop, input |-> input]

\* a run that was listed as ended is described with the same status
LaterStatuses(status) == IF status = "RUNNING" THEN Statuses ELSE {status}

\* meta of a Cumulus message; provider_path comes with or without a leading '/'
DescriptiveMeta(name) ==
    [collection |-> [name |-> "MODIS",
                     meta |-> [provider_path |-> IF name[Len(name)] \in {"1", "3", "5", "7", "9"}
                                                 THEN <<"/", "data">>
                                                 ELSE <<"data">>]],
     provider |-> [protocol |-> "https", host |-> "example.com"]]

\* input texts that lack what the code reads: no JSON, no 'meta' (and no
\* 'payload'), a collection without a provider
BadInputs ==
    {Garbage,
     JsonText([cumulus_meta |-> [state_machine |-> discover_arn]]),
     JsonText([meta |-> [collection |-> [name |-> "VIIRS"]]])}

DiscoverInputs(name) == {JsonText([meta |-> DescriptiveMeta(name)])} \cup BadInputs

\* the output of a discover run: the code never reads it, so one text stands
\* for them all
DiscoverOutputs == {Garbage}

\* what the input of an ingest run may name as the run that queued it: the
\* first discover run, listed or not, or (nothing in the service prevents it)
\* itself
Queuers(name) == {<<discover_arn, NameOf(1)>>, <<ingest_arn, name>>}

IngestInputs(name) ==
    {JsonText([payload |-> [meta |-> [source |-> q[1], execution_name |-> q[2]]],
               meta |-> DescriptiveMeta(name)]) : q \in Queuers(name)} \cup BadInputs

IngestOutputs(name) ==
    {JsonText([meta |-> [cnmResponse |-> [identifier |-> <<"granule">> \o name]]]), Garbage}

\* describe_execution of a listed run
DescribeListed(execution, statuses, inputs, outputs) ==
    {Description(execution["executionArn"], st, 0, 1, i, o) :
        st \in statuses, i \in inputs, o \in outputs}

----------------------------------------------------------------------------
(* build_discover_ingest_objects *)

ListExecutions ==
    /\ pc = "list_executions"
    /\ list_discover_exec' \in Listings(discover_arn, MaxDiscover)
    /\ list_exec' \in Listings(ingest_arn, MaxIngest)
    /\ pc' = "build_discover_ingest_objects"
    /\ UNCHANGED <<discovers, ingests, relation_map, idx, debug_data, calls, response,
                   s3_response_object, raw_data, report>>

\* one turn of the loop over list_discover_exec['executions']
BuildDiscover ==
    /\ pc = "build_discover_ingest_objects"
    /\ Len(discovers) < Len(list_discover_exec)
    /\ LET execution == list_discover_exec[Len(discovers) + 1]
       IN \E execution_input \in
               DescribeListed(execution, LaterStatuses(execution["status"]),
                              DiscoverInputs(execution["name"]), DiscoverOutputs) :
             LET step == set_execution_metadata(StepFunction(execution), execution_input)
             IN IF set_extra_metadata_returns(step)
                THEN /\ discovers' = Append(discovers, set_extra_metadata(step))
                     /\ pc' = pc
                ELSE /\ pc' = "aborted"
                     /\ UNCHANGED discovers
    /\ UNCHANGED <<list_discover_exec, list_exec, ingests, relation_map, idx,
                   debug_data, calls, response,
                   s3_response_object, raw_data, report>>

\* one turn of the loop over list_exec['executions']
BuildIngest ==
    /\ pc = "build_discover_ingest_objects"
    /\ Len(discovers) = Len(list_discover_exec)
    /\ Len(ingests) < Len(list_exec)
    /\ LET execution == list_exec[Len(ingests) + 1]
       IN \E execution_input \in
               DescribeListed(execution, LaterStatuses(execution["status"]),
                              IngestInputs(execution["name"]),
                              IngestOutputs(execution["name"])) :
             LET step == set_execution_metadata(StepFunction(execution), execution_input)
             IN IF set_parent_returns(step) /\ set_granule_id_returns(set_parent(step))
                THEN /\ ingests' = Append(ingests, set_granule_id(set_parent(step)))
                     /\ pc' = pc
                ELSE /\ pc' = "aborted"
                     /\ UNCHANGED ingests
    /\ UNCHANGED <<list_discover_exec, list_exec, discovers, relation_map, idx,
                   debug_data, calls, response,
                   s3_response_object, raw_data, report>>

\* return discovers, ingests
BuildReturn ==
    /\ pc = "build_discover_ingest_objects"
    /\ Len(discovers) = Len(list_discover_exec)
    /\ Len(ingests) = Len(list_exec)
    /\ pc' = "build_relation_tree"
    /\ idx' = 0
    /\ UNCHANGED <<list_discover_exec, list_exec, discovers, ingests, relation_map,
                   debug_data, calls, response,
                   s3_response_object, raw_data, report>>

----------------------------------------------------------------------------
(* build_relation_tree *)

\* one turn of the loop over discover_list
TreeDiscover ==
    /\ pc = "build_relation_tree"
    /\ idx < Len(discovers)
    /\ relation_map' = TreeAddDiscover(relation_map, discovers[idx + 1])
    /\ idx' = idx + 1
    /\ UNCHANGED <<pc, list_discover_exec, list_exec, discovers, ingests, debug_data,
                   calls, response, s3_response_object, raw_data, report>>

\* describe_execution of the run b itself, some time after the description b
\* holds: the same input, a status no earlier, the same output once it has one
DescribeSelf(b) ==
    LET own == b.execution_metadata
    IN {Description(b.execution_arn, st, 0, 1, own["input"], o) :
           st \in LaterStatuses(own["status"]),
           o \in IF own["status"] = "SUCCEEDED" THEN {own["output"]}
                 ELSE IngestOutputs(b.name)}

\* describe_execution(executionArn=b.parent_execution_arn): a description, or the
\* client's ExecutionDoesNotExist error for a run that was not listed
DescribeParent(m, b) ==
    LET arn == b.parent_execution_arn
        statuses == IF Has(m, arn) THEN LaterStatuses(Get(m, arn).info.status)
                    ELSE Statuses
    IN IF arn = b.execution_arn THEN DescribeSelf(b)
       ELSE {Description(arn, st, 0, 1, i, o) :
                st \in statuses, i \in DiscoverInputs(NameIn(arn)), o \in DiscoverOutputs}
            \cup (IF Has(m, arn) THEN {} ELSE {[Error |-> "ExecutionDoesNotExist"]})

\* one turn of the loop over ingest_list
TreeIngest ==
    /\ pc = "build_relation_tree"
    /\ idx >= Len(discovers)
    /\ idx - Len(discovers) < Len(ingests)
    /\ LET j == idx - Len(discovers) + 1
       IN \E execution_input \in DescribeParent(relation_map, ingests[j]) :
             LET b == set_execution_metadata(ingests[j], execution_input)
             IN IF "Error" \notin DOMAIN execution_input /\ set_extra_metadata_returns(b)
                THEN /\ ingests' = [ingests EXCEPT ![j] = set_extra_metadata(b)]
                     /\ relation_map' =
                            TreeAddIngest(relation_map, set_extra_metadata(b), execution_input)
                     /\ idx' = idx + 1
                     /\ pc' = pc
                ELSE /\ pc' = "aborted"
                     /\ ingests' = IF "Error" \in DOMAIN execution_input THEN ingests
                                   ELSE [ingests EXCEPT ![j] = set_extra_metadata_raised(b)]
                     /\ UNCHANGED <<relation_map, idx>>
    /\ UNCHANGED <<list_discover_exec, list_exec, discovers, debug_data, calls, response,
                   s3_response_object, raw_data, report>>

\* return relation_map, and generate_file(relation_tree, 'debug_data')
TreeReturn ==
    /\ pc = "build_relation_tree"
    /\ idx = Len(discovers) + Len(ingests)
    /\ debug_data' = relation_map
    /\ pc' = "append_metadata"
    /\ idx' = 0
    /\ UNCHANGED <<list_discover_exec, list_exec, discovers, ingests, relation_map,
                   calls, response, s3_response_object, raw_data, report>>

NoCalls == [get_execution_history |-> <<>>, events_read |-> <<>>, get_object |-> <<>>]

\* a local that has not been assigned
NoResponse == [unassigned |-> TRUE]

Init ==
    /\ pc = "list_executions"
    /\ list_discover_exec = <<>>
    /\ list_exec = <<>>
    /\ discovers = <<>>
    /\ ingests = <<>>
    /\ relation_map = <<>>
    /\ idx = 0
    /\ debug_data = <<>>
    /\ calls = NoCalls
    /\ response = NoResponse
    /\ s3_response_object = NoResponse
    /\ raw_data = <<>>
    /\ report = <<>>

Next ==
    \/ ListExecutions
    \/ BuildDiscover
    \/ BuildIngest
    \/ BuildReturn
    \/ TreeDiscover
    \/ TreeIngest
    \/ TreeReturn

Spec == Init /\ [][Next]_vars

----------------------------------------------------------------------------
(* append_metadata *)

\* d[k] = v on a dict
Put(d, k, v) == (k :> v) @@ d

\* the events before the discovery lambda's completion event
HistoryPrefix ==
    <<[type |-> "ExecutionStarted"], [type |-> "TaskStateEntered"],
      [type |-> "LambdaFunctionScheduled"], [type |-> "LambdaFunctionStarted"]>>

SucceededEvent(output) ==
    [type |-> "LambdaFunctionSucceeded",
     lambdaFunctionSucceededEventDetails |-> [output |-> output]]

FailedEvent(cause) ==
    [type |-> "LambdaFunctionFailed",
     lambdaFunctionFailedEventDetails |-> [cause |-> cause]]

\* a failure event whose details carry the error only
FailedEventNoCause ==
    [type |-> "LambdaFunctionFailed",
     lambdaFunctionFailedEventDetails |-> [error |-> "Lambda.Unknown"]]

\* outputs of the discovery lambda: the count inline, with and without the
\* field the code reads; a pointer to the S3 object; neither; no JSON at all
LambdaOutputs ==
    {JsonText([payload |-> [granules |-> <<>>],
               meta |-> [collection |-> [meta |-> [discover_tf |->
                            [queued_granules_count |-> n]]]]]) : n \in {0, 7}}
    \cup {JsonText([payload |-> [granules |-> <<>>], exception |-> "None"]),
          JsonText([replace |-> [Bucket |-> "b", Key |-> "k"]]),
          JsonText([exception |-> "None"]),
          Garbage}

\* get_execution_history()['events']
Histories ==
    {Append(HistoryPrefix, SucceededEvent(o)) : o \in LambdaOutputs}
    \cup {Append(HistoryPrefix, FailedEvent("Lambda.Unknown")),
          Append(HistoryPrefix, FailedEventNoCause),
          Append(HistoryPrefix, [type |-> "LambdaFunctionTimedOut",
                                 lambdaFunctionTimedOutEventDetails |-> [cause |-> "timeout"]]),
          HistoryPrefix}

\* get_object(): the decoded body, or the client's NoSuchKey error
S3Responses ==
    {JsonText([payload |-> [granules |-> g]]) : g \in {<<>>, <<"g1", "g2", "g3">>}}
    \cup {JsonText([exception |-> "None"]), Garbage, [Error |-> "NoSuchKey"]}

\* response['events'][4] exists
HasEvent(events) == Len(events) >= EventIndex + 1

Succeeded(events) == events[EventIndex + 1]["type"] = "LambdaFunctionSucceeded"

\* the output text of the success event
OutputOf(events) ==
    events[EventIndex + 1]["lambdaFunctionSucceededEventDetails"]["output"]

\* the branch that calls s3_client.get_object is reached
FetchesObject(events) ==
    /\ HasEvent(events)
    /\ Succeeded(events)
    /\ OutputOf(events).parses
    /\ "payload" \notin DOMAIN OutputOf(events).value
    /\ "replace" \in DOMAIN OutputOf(events).value

\* s3_client.get_object is called and returns: s3_response_object is assigned
AssignsObject(root_info, events, object) ==
    /\ root_info["status"] # "RUNNING"
    /\ FetchesObject(events)
    /\ {"Bucket", "Key"} \subseteq DOMAIN OutputOf(events).value["replace"]
    /\ "Error" \notin DOMAIN object

\* lines 267-286 run to the end without an exception
BackfillReturns(events, object) ==
    /\ HasEvent(events)
    /\ IF Succeeded(events)
       THEN /\ OutputOf(events).parses
            /\ LET output == OutputOf(events).value
               IN IF "payload" \in DOMAIN output
                  THEN /\ "meta" \in DOMAIN output
                       /\ "collection" \in DOMAIN output["meta"]
                       /\ "meta" \in DOMAIN output["meta"]["collection"]
                       /\ "discover_tf" \in DOMAIN output["meta"]["collection"]["meta"]
                       /\ "queued_granules_count" \in
                              DOMAIN output["meta"]["collection"]["meta"]["discover_tf"]
                  ELSE IF "replace" \in DOMAIN output
                  THEN /\ {"Bucket", "Key"} \subseteq DOMAIN output["replace"]
                       /\ "Error" \notin DOMAIN object
                       /\ object.parses
                       /\ "payload" \in DOMAIN object.value
                       /\ "granules" \in DOMAIN object.value["payload"]
                  ELSE TRUE
       ELSE /\ "lambdaFunctionFailedEventDetails" \in DOMAIN events[EventIndex + 1]
            /\ "cause" \in DOMAIN events[EventIndex + 1]["lambdaFunctionFailedEventDetails"]

\* variant: the inline case counts payload.granules instead of reading the field
GranuleCount_CountsPayload(output, s3_download) ==
    IF "payload" \in DOMAIN output
    THEN JNum(Len(output["payload"]["granules"]))
    ELSE IF "replace" \in DOMAIN output
    THEN JNum(Len(s3_download.value["payload"]["granules"]))
    ELSE JStr(REPLACE_NOT_FOUND)

\* granule_count of lines 270-280
GranuleCount(output, s3_download) ==
    IF "payload" \in DOMAIN output
    THEN JNum(output["meta"]["collection"]["meta"]["discover_tf"]["queued_granules_count"])
    ELSE IF "replace" \in DOMAIN output
    THEN JNum(Len(s3_download.value["payload"]["granules"]))
    ELSE JStr(REPLACE_NOT_FOUND)

\* variant: a RUNNING root is skipped before its count is set
BackfillInfo_SkipsRunning(root_info, events, object) ==
    IF root_info["status"] = "RUNNING"
    THEN root_info
    ELSE IF Succeeded(events)
    THEN Put(root_info, "queued_granules_count",
             GranuleCount(OutputOf(events).value, object))
    ELSE Put(Put(root_info, "fail",
                 events[EventIndex + 1]["lambdaFunctionFailedEventDetails"]["cause"]),
             "queued_granules_count", JStr(NA))

\* source[d]['info'] after lines 263-286, when they raise nothing
BackfillInfo(root_info, events, object) ==
    IF root_info["status"] = "RUNNING"
    THEN Put(root_info, "queued_granules_count", JStr(NA))
    ELSE IF Succeeded(events)
    THEN Put(root_info, "queued_granules_count",
             GranuleCount(OutputOf(events).value, object))
    ELSE Put(Put(root_info, "fail",
                 events[EventIndex + 1]["lambdaFunctionFailedEventDetails"]["cause"]),
             "queued_granules_count", JStr(NA))

\* variant: the event at index 4 is read before the status is tested
BackfillCalls_ReadsFirst(c, d, root_info, events) ==
    LET looked == [c EXCEPT !.get_execution_history = Append(@, d)]
        read == [looked EXCEPT !.events_read = Append(@, d)]
    IN IF root_info["status"] = "RUNNING" THEN read
       ELSE IF FetchesObject(events) /\ {"Bucket", "Key"} \subseteq
                                            DOMAIN OutputOf(events).value["replace"]
       THEN [read EXCEPT !.get_object = Append(@, d)]
       ELSE read

\* the client calls of one turn of the loop
BackfillCalls(c, d, root_info, events) ==
    LET looked == [c EXCEPT !.get_execution_history = Append(@, d)]
        read == [looked EXCEPT !.events_read = Append(@, d)]
    IN IF root_info["status"] = "RUNNING" THEN looked
       ELSE IF FetchesObject(events) /\ {"Bucket", "Key"} \subseteq
                                            DOMAIN OutputOf(events).value["replace"]
       THEN [read EXCEPT !.get_object = Append(@, d)]
       ELSE read

\* one turn of the loop over source
AppendMetadata ==
    /\ pc = "append_metadata"
    /\ idx < Len(relation_map)
    /\ LET d == relation_map[idx + 1].key
           root_info == relation_map[idx + 1].info
       IN \E events \in Histories, object \in S3Responses :
             /\ response' = [events |-> events]
             /\ calls' = BackfillCalls(calls, d, root_info, events)
             /\ s3_response_object' =
                    IF AssignsObject(root_info, events, object)
                    THEN object ELSE s3_response_object
             /\ IF root_info["status"] = "RUNNING" \/ BackfillReturns(events, object)
                THEN /\ relation_map' = [relation_map EXCEPT ![idx + 1].info =
                                             BackfillInfo(root_info, events, object)]
                     /\ idx' = idx + 1
                     /\ pc' = pc
                ELSE /\ pc' = "aborted"
                     /\ UNCHANGED <<relation_map, idx>>
    /\ UNCHANGED <<list_discover_exec, list_exec, discovers, ingests, debug_data,
                   raw_data, report>>

\* return source, and generate_file(relation_tree, 'raw_data')
AppendReturn ==
    /\ pc = "append_metadata"
    /\ idx = Len(relation_map)
    /\ raw_data' = relation_map
    /\ pc' = "generate_report"
    /\ UNCHANGED <<list_discover_exec, list_exec, discovers, ingests, relation_map, idx,
                   debug_data, calls, response, s3_response_object, report>>

----------------------------------------------------------------------------
(* generate_report *)

\* str() of a JSON number or string
PyStr(v) == IF v.type = "number" THEN [digits |-> v.n] ELSE [text |-> v.s]

\* the line of a root: its tab separated fields
RootLine(granule_info) ==
    <<granule_info["start"], granule_info["status"], granule_info["duration"],
      PyStr(granule_info["queued_granules_count"]), granule_info["collection"],
      granule_info["provider"]>>

\* the line of a child; it starts with a tab
ChildLine(child) ==
    LET c == CHOOSE k \in DOMAIN child : TRUE
    IN <<"", child[c]["start"], child[c]["status"], child[c]["duration"],
         child[c]["granuleId"]>>

\* what the loop body writes for one root
RootBlock(entry, with_children, with_fail) ==
    <<RootLine(entry.info)>>
    \o (IF with_children THEN [i \in 1..Len(entry.child) |-> ChildLine(entry.child[i])]
        ELSE <<>>)
    \o (IF with_fail /\ "fail" \in DOMAIN entry.info THEN <<<<"", entry.info["fail"]>>>>
        ELSE <<>>)
    \o << <<>> >>

\* what is written of the line of a root without a count before the KeyError:
\* three fields and the tab after them
UnfinishedRootLine(granule_info) ==
    <<granule_info["start"], granule_info["status"], granule_info["duration"], "">>

\* the lines written for source; the writing stops in the line of the first
\* root without a count
RECURSIVE ReportLines(_, _, _)
ReportLines(source, with_children, with_fail) ==
    IF source = <<>> THEN <<>>
    ELSE IF "queued_granules_count" \notin DOMAIN Head(source).info
    THEN <<UnfinishedRootLine(Head(source).info)>>
    ELSE RootBlock(Head(source), with_children, with_fail)
         \o ReportLines(Tail(source), with_children, with_fail)

\* generate_report(relation_tree, 'final'); a root without a count is a KeyError
GenerateReport ==
    /\ pc = "generate_report"
    /\ \E append_children \in BOOLEAN, append_fail \in BOOLEAN :
          /\ report' = ReportLines(relation_map, append_children, append_fail)
          /\ pc' = IF \A i \in DOMAIN relation_map :
                        "queued_granules_count" \in DOMAIN relation_map[i].info
                   THEN "done" ELSE "aborted"
    /\ UNCHANGED <<list_discover_exec, list_exec, discovers, ingests, relation_map, idx,
                   debug_data, calls, response, s3_response_object, raw_data>>

----------------------------------------------------------------------------
(* The whole script: append_metadata and generate_report work on the forest *)
(* build_relation_tree has returned.                                        *)

NextScript ==
    \/ Next
    \/ AppendMetadata
    \/ AppendReturn
    \/ GenerateReport

SpecScript == Init /\ [][NextScript]_vars

----------------------------------------------------------------------------
(* The execution record on its own: __init__ and get_duration on every      *)
(* listing entry, whatever its status and its start and stop dates (a run   *)
(* that has not stopped has no stop date).                                  *)

\* the status values of the Step Functions API
AllStatuses == Statuses \cup {"TIMED_OUT", "ABORTED"}

ListEntries ==
    {ListEntry(sm, NameOf(1), st, start, stop) :
        sm \in {discover_arn, ingest_arn}, st \in AllStatuses,
        start \in 0..MaxTime, stop \in 0..MaxTime}

InitDuration ==
    /\ pc = "list_executions"
    /\ list_discover_exec = <<>>
    /\ list_exec \in {<<e>> : e \in ListEntries}
    /\ discovers = <<>>
    /\ ingests = <<>>
    /\ relation_map = <<>>
    /\ idx = 0
    /\ debug_data = <<>>
    /\ calls = NoCalls
    /\ response = NoResponse
    /\ s3_response_object = NoResponse
    /\ raw_data = <<>>
    /\ report = <<>>

\* step = StepFunction(execution)
Construct ==
    /\ pc = "list_executions"
    /\ ingests' = <<StepFunction(list_exec[1])>>
    /\ pc' = "constructed"
    /\ UNCHANGED <<list_discover_exec, list_exec, discovers, relation_map, idx, debug_data,
                   calls, response, s3_response_object, raw_data, report>>

NextDuration == Construct

SpecDuration == InitDuration /\ [][NextDuration]_vars

----------------------------------------------------------------------------
(* Properties of build_relation_tree, checked under Spec *)

\* build_relation_tree has returned its forest
TreeReturned == pc = "append_metadata"

\* the positions of the roots keyed by arn
RootsOf(m, arn) == {r \in DOMAIN m : m[r].key = arn}

DiscoverArns == {discovers[i].execution_arn : i \in DOMAIN discovers}

\* the places <<root, position>> of the children lists that hold the record arn
PlacesOf(m, arn) ==
    {rp \in UNION {{<<r, p>> : p \in DOMAIN m[r].child} : r \in DOMAIN m} :
        DOMAIN m[rp[1]].child[rp[2]] = {arn}}

\* the position in the ingestion input list of the record a child dict holds
IngestPosition(child) == CHOOSE j \in DOMAIN ingests : DOMAIN child = {ingests[j].execution_arn}

\* C1: in the forest build_relation_tree returns, the execution reference of
\* each discovery record is the key of exactly one root, with or without children.
C1_DiscoverIsOneRoot ==
    TreeReturned =>
        \A i \in DOMAIN discovers :
            Cardinality(RootsOf(relation_map, discovers[i].execution_arn)) = 1

\* a listed root stays without children although ingestion records were supplied
C1_Witness ==
    /\ TreeReturned
    /\ Len(ingests) >= 1
    /\ \E i \in DOMAIN discovers :
          \E r \in RootsOf(relation_map, discovers[i].execution_arn) :
              relation_map[r].child = <<>>

\* C2: in the returned forest every ingestion record is in the children list of
\* exactly one root, the one keyed by its parent reference; a parent reference
\* that is not a listed discovery record has exactly one (synthetic) root, whose
\* children are exactly the ingestion records that name it.
C2_OneParentOneSyntheticRoot ==
    TreeReturned =>
        /\ \A j \in DOMAIN ingests :
              /\ Cardinality(PlacesOf(relation_map, ingests[j].execution_arn)) = 1
              /\ \A rp \in PlacesOf(relation_map, ingests[j].execution_arn) :
                    relation_map[rp[1]].key = ingests[j].parent_execution_arn
        /\ \A j \in DOMAIN ingests :
              LET parent == ingests[j].parent_execution_arn
              IN parent \notin DiscoverArns =>
                    /\ Cardinality(RootsOf(relation_map, parent)) = 1
                    /\ \A r \in RootsOf(relation_map, parent) :
                          Len(relation_map[r].child) =
                             Cardinality({k \in DOMAIN ingests :
                                             ingests[k].parent_execution_arn = parent})

\* two ingestion records share a parent that was not listed
C2_Witness ==
    /\ TreeReturned
    /\ \E j, k \in DOMAIN ingests :
          /\ j # k
          /\ ingests[j].parent_execution_arn = ingests[k].parent_execution_arn
          /\ ingests[j].parent_execution_arn \notin DiscoverArns

\* C3: in the returned forest the children of every root, listed or synthetic,
\* are in the order in which the ingestion records were supplied.
C3_ChildrenInInputOrder ==
    TreeReturned =>
        \A r \in DOMAIN relation_map :
            \A p, q \in DOMAIN relation_map[r].child :
                p < q => IngestPosition(relation_map[r].child[p])
                            < IngestPosition(relation_map[r].child[q])

\* a listed root with two children
C3_Witness ==
    /\ TreeReturned
    /\ \E r \in DOMAIN relation_map :
          /\ relation_map[r].key \in DiscoverArns
          /\ Len(relation_map[r].child) = 2

----------------------------------------------------------------------------
(* Properties of the enrichment, checked under Spec *)

\* C4: after enrichment the granule identifier of every record whose status is
\* not SUCCEEDED is the class default.
C4_GranuleOnlyWhenSucceeded ==
    /\ \A i \in DOMAIN discovers :
          discovers[i].status # "SUCCEEDED" => discovers[i].granule_id = NAStr
    /\ \A j \in DOMAIN ingests :
          ingests[j].status # "SUCCEEDED" => ingests[j].granule_id = NAStr

\* the parent reference the claim derives from a record's own description
DerivedParent(description) ==
    LET meta == description["input"].value["payload"]["meta"]
    IN Replace(meta["source"], StateMachineChars, ExecutionChars)
          \o <<":">> \o meta["execution_name"]

\* C9: the parent reference of every ingestion record is the one derived from the
\* input payload of the record's own description, and it is never the record's
\* own execution reference.
C9_ParentFromOwnInputNeverSelf ==
    \A j \in DOMAIN ingests :
        /\ ingests[j].parent_execution_arn # ingests[j].execution_arn
        /\ pc = "build_discover_ingest_objects" =>
               ingests[j].parent_execution_arn = DerivedParent(ingests[j].execution_metadata)

----------------------------------------------------------------------------
(* Properties of append_metadata, checked under SpecScript *)

\* append_metadata has been entered, and has perhaps raised or returned
Backfilling ==
    \/ pc \in {"append_metadata", "generate_report", "done"}
    \/ pc = "aborted" /\ calls # NoCalls

\* the loop has just finished the root at position idx
RootDone == Backfilling /\ pc # "aborted" /\ idx >= 1

\* the root the loop has just finished, and the event at index 4 of its history
DoneKey == relation_map[idx].key

DoneInfo == relation_map[idx].info

DoneEvent == response.events[EventIndex + 1]

DoneOutput == DoneEvent["lambdaFunctionSucceededEventDetails"]["output"].value

HasFail(root_info) == "fail" \in DOMAIN root_info

Fetched(arn) == \E n \in DOMAIN calls.get_object : calls.get_object[n] = arn

LookedUp(arn) ==
    \E n \in DOMAIN calls.get_execution_history : calls.get_execution_history[n] = arn

EventsRead(arn) == \E n \in DOMAIN calls.events_read : calls.events_read[n] = arn

\* C5: for a root that is not RUNNING the result comes from the event at index 4:
\* a success event gives the inline count when its output has 'payload', else the
\* length of payload.granules of the fetched object when it has 'replace', else
\* 'REPLACE NOT FOUND'; a failure event gives 'fail' = cause and the count 'N/A'.
\* The object store is fetched in the 'replace' case only, 'fail' is set in the
\* failure case only.
C5_CountFromEventFour ==
    (RootDone /\ DoneInfo["status"] # "RUNNING") =>
        IF DoneEvent["type"] = "LambdaFunctionSucceeded"
        THEN /\ ~HasFail(DoneInfo)
             /\ IF "payload" \in DOMAIN DoneOutput
                THEN /\ DoneInfo["queued_granules_count"] =
                          JNum(DoneOutput["meta"]["collection"]["meta"]["discover_tf"]
                                         ["queued_granules_count"])
                     /\ ~Fetched(DoneKey)
                ELSE IF "replace" \in DOMAIN DoneOutput
                THEN /\ DoneInfo["queued_granules_count"] =
                          JNum(Len(s3_response_object.value["payload"]["granules"]))
                     /\ Fetched(DoneKey)
                ELSE /\ DoneInfo["queued_granules_count"] = JStr(REPLACE_NOT_FOUND)
                     /\ ~Fetched(DoneKey)
        ELSE /\ DoneEvent["type"] = "LambdaFunctionFailed"
             /\ HasFail(DoneInfo)
             /\ DoneInfo["fail"] = DoneEvent["lambdaFunctionFailedEventDetails"]["cause"]
             /\ DoneInfo["queued_granules_count"] = JStr(NA)
             /\ ~Fetched(DoneKey)

\* a root got the length of a non-empty granule list of the fetched object
C5_Witness ==
    /\ RootDone
    /\ DoneInfo["status"] # "RUNNING"
    /\ Fetched(DoneKey)
    /\ DoneInfo["queued_granules_count"] = JNum(3)

\* the roots the loop has finished that are RUNNING
RunningDone ==
    IF Backfilling
    THEN {i \in 1..idx : pc # "aborted" /\ relation_map[i].info["status"] = "RUNNING"}
    ELSE {}

\* C6 as stated: a RUNNING root gets the count 'N/A' and no 'fail', no history
\* lookup is made for it and no event of its history is read.
C6_NoLookupForRunning ==
    \A i \in RunningDone :
        /\ relation_map[i].info["queued_granules_count"] = JStr(NA)
        /\ ~HasFail(relation_map[i].info)
        /\ ~LookedUp(relation_map[i].key)
        /\ ~EventsRead(relation_map[i].key)

\* C6 as amended: a RUNNING root gets the count 'N/A' and no 'fail'; its history
\* is looked up like every root's, but no event of it is read and no object is
\* fetched, so the outcome does not depend on what the history holds.
C6_RunningSkipsEvents ==
    \A i \in RunningDone :
        /\ relation_map[i].info["queued_granules_count"] = JStr(NA)
        /\ ~HasFail(relation_map[i].info)
        /\ LookedUp(relation_map[i].key)
        /\ ~EventsRead(relation_map[i].key)
        /\ ~Fetched(relation_map[i].key)

\* a RUNNING root was finished although its history has fewer than five events
C6_Witness ==
    /\ RootDone
    /\ DoneInfo["status"] = "RUNNING"
    /\ Len(response.events) < EventIndex + 1

\* C7: the backfill pass never aborts because of one bad root.
C7_BackfillNeverAborts == Backfilling => pc # "aborted"

\* what append_metadata may add to the info of a root
BackfillKeys == {"queued_granules_count", "fail"}

\* C10: append_metadata changes nothing but the 'queued_granules_count' and
\* 'fail' fields of root info: the root keys, the children lists and every other
\* info field are as before the pass; and once the pass has returned every root
\* has a 'queued_granules_count', which the report shows for every root.
C10_OnlyCountAndFailChange ==
    /\ Backfilling =>
          /\ Len(relation_map) = Len(debug_data)
          /\ \A i \in DOMAIN relation_map :
                /\ relation_map[i].key = debug_data[i].key
                /\ relation_map[i].child = debug_data[i].child
                /\ DOMAIN debug_data[i].info \subseteq DOMAIN relation_map[i].info
                /\ DOMAIN relation_map[i].info \subseteq DOMAIN debug_data[i].info \cup BackfillKeys
                /\ \A k \in DOMAIN debug_data[i].info :
                      relation_map[i].info[k] = debug_data[i].info[k]
    /\ pc \in {"generate_report", "done"} =>
          \A i \in DOMAIN relation_map :
              "queued_granules_count" \in DOMAIN relation_map[i].info
    /\ pc = "done" =>
          \A i \in DOMAIN relation_map :
              \E n \in DOMAIN report :
                  /\ Len(report[n]) = 6
                  /\ report[n][4] = PyStr(relation_map[i].info["queued_granules_count"])

\* the report is written for a forest with a RUNNING root, a failed root and a
\* root with a child
C10_Witness ==
    /\ pc = "done"
    /\ \E i, j \in DOMAIN relation_map :
          /\ relation_map[i].info["status"] = "RUNNING"
          /\ HasFail(relation_map[j].info)
          /\ relation_map[j].child # <<>>

----------------------------------------------------------------------------
(* Properties of the execution record, checked under SpecDuration *)

\* the entry stops no earlier than it starts
StopsAfterStart(execution) ==
    "stopDate" \in DOMAIN execution => execution["stopDate"] >= execution["startDate"]

\* C8 as stated: the duration of every execution record built from a listing
\* entry, whatever the status and the start and stop dates of the entry, is not
\* negative, and it is zero when the status is RUNNING.
C8_DurationNotNegative ==
    \A j \in DOMAIN ingests :
        /\ get_duration(ingests[j]) >= 0
        /\ ingests[j].status = "RUNNING" => get_duration(ingests[j]) = 0

\* C8 as amended: the duration is stop - start of the record, it is not negative
\* when the entry stops no earlier than it starts, and it is zero when the
\* status is RUNNING.
C8_DurationNotNegativeWhenOrdered ==
    \A j \in DOMAIN ingests :
        /\ info(ingests[j])["duration"] =
              DurationStr(ingests[j].stop_date_time - ingests[j].start_date_time)
        /\ StopsAfterStart(list_exec[j]) => get_duration(ingests[j]) >= 0
        /\ ingests[j].status = "RUNNING" => get_duration(ingests[j]) = 0

\* a record of a run that succeeded some time after it started
C8_Witness ==
    /\ pc = "constructed"
    /\ ingests[1].status = "SUCCEEDED"
    /\ get_duration(ingests[1]) > 0

====
